---- MODULE Spec2Model ----
(***************************************************************************)
(* Model of the validation-and-transformation pipeline of the steel Gantt  *)
(* application: processRows of src/src/lib/excel-parser.ts,                *)
(* validateAndTransform of src/src/lib/validator.ts and handleFileProcess  *)
(* of src/src/app/page.tsx.                                                *)
(*                                                                         *)
(* Conventions.                                                            *)
(*  - A JavaScript string that the code inspects character by character    *)
(*    (startStr, endStr, dateStr) is a sequence of one-character strings;  *)
(*    "" is <<>>.  Strings the code only compares or looks up (heatId,     *)
(*    unit, steelGrade, kind) are TLA+ strings.                            *)
(*  - A value that may be null / undefined / NaN / Invalid Date is an      *)
(*    option: <<>> for the missing value, <<v>> for the value v.           *)
(*  - A Date is its local wall-clock time in minutes (getTime() / 60000).  *)
(*    Every day has 24 * 60 minutes (no daylight-saving change) and the    *)
(*    local zone is UTC, so the local calendar day of new Date(           *)
(*    "YYYY-MM-DD") is that day.                                           *)
(*  - A cell of the sheet is a record: [null |-> e] for null, where e is   *)
(*    the empty string in the representation of the cell's column,         *)
(*    [text |-> s] for a TLA+ string and [chars |-> s] for a sequence of   *)
(*    characters.                                                          *)
(***************************************************************************)
EXTENDS Integers, Sequences, FiniteSets, TLC

VARIABLES
    sheet,                 \* the argument of processRows: the rows of the sheet
    parseWarnings,         \* the warnings processRows returns
    thrown,                \* the message of the exception thrown, if any
    ganttData,             \* the state of the page: setGanttData
    allErrors,             \*                        setValidationErrors(allErrors)
    warnings,              \*                        setWarnings
    error,                 \*                        setError
    rows,                  \* the argument of validateAndTransform
    today,                 \* the day new Date() returns (days since 1970-01-01)
    pc,                    \* "idle" | "parse" | "parseThrown" | "loop" |
                           \* "returned" | "thrown" | "shown" | "failed"
    next,                  \* position of the for-in loop in the keys of heats
    errors,                \* const errors: ValidationError[]
    validHeats,            \* const validHeats: GanttHeat[]
    heatId,                \* the loop's locals, as the last iteration left them
    sortedRowsForParsing,
    tempOps,
    heatHasFatalError,
    ops,
    hasValidationError,
    run,                   \* 1 in the first call of validateAndTransform on rows,
                           \* 2 in a second call on the same rows
    firstRun,              \* the first call: its argument as it was at the call,
                           \* what its sorts returned, and how it ended
    isLoading,             \* the state of the page: setIsLoading
    uploads,               \* the sheets of the files handed to handleFileProcess,
                           \* in the order of the calls
    loaded                 \* the calls whose await parseExcel(file) has settled

vars == <<sheet, parseWarnings, thrown, ganttData, allErrors, warnings, error,
          rows, today, pc, next, errors, validHeats, heatId, sortedRowsForParsing,
          tempOps, heatHasFatalError, ops, hasValidationError, run, firstRun,
          isLoading, uploads, loaded>>

\* The state of the page component.
pageVars == <<ganttData, allErrors, warnings, error>>

\* The locals of validateAndTransform.
validateVars == <<next, errors, validHeats, heatId, sortedRowsForParsing, tempOps,
                  heatHasFatalError, ops, hasValidationError>>

Undefined == "undefined"

MinutesPerDay == 24 * 60

(***************************************************************************)
(* Strings and numbers                                                     *)
(***************************************************************************)
DigitChars == <<"0", "1", "2", "3", "4", "5", "6", "7", "8", "9">>

IsDigit(c) == \E i \in 1..Len(DigitChars) : DigitChars[i] = c

DigitValue(c) == (CHOOSE i \in 1..Len(DigitChars) : DigitChars[i] = c) - 1

RECURSIVE splitFrom(_, _, _)
splitFrom(s, i, cur) ==
    IF i > Len(s) THEN <<cur>>
    ELSE IF s[i] = ":" THEN <<cur>> \o splitFrom(s, i + 1, <<>>)
    ELSE splitFrom(s, i + 1, Append(cur, s[i]))

\* hhmm.split(':')
split(s) == splitFrom(s, 1, <<>>)

RECURSIVE decimal(_)
decimal(p) ==
    IF p = <<>> THEN 0
    ELSE 10 * decimal(SubSeq(p, 1, Len(p) - 1)) + DigitValue(p[Len(p)])

\* Number(p) of a string of the row parser: "" is 0, digits are their decimal
\* value, anything else is NaN (<<>>).
Number(p) == IF \A i \in 1..Len(p) : IsDigit(p[i]) THEN <<decimal(p)>> ELSE <<>>

\* The collation weight of a character: localeCompare orders punctuation
\* before digits.
CharRank(c) == IF IsDigit(c) THEN 1 + DigitValue(c) ELSE 0

RECURSIVE localeCompareFrom(_, _, _)
localeCompareFrom(a, b, i) ==
    IF i > Len(a) /\ i > Len(b) THEN 0
    ELSE IF i > Len(a) THEN 0 - 1
    ELSE IF i > Len(b) THEN 1
    ELSE IF CharRank(a[i]) < CharRank(b[i]) THEN 0 - 1
    ELSE IF CharRank(a[i]) > CharRank(b[i]) THEN 1
    ELSE localeCompareFrom(a, b, i + 1)

\* a.localeCompare(b)
localeCompare(a, b) == localeCompareFrom(a, b, 1)

(***************************************************************************)
(* Dates                                                                   *)
(***************************************************************************)
IsLeapYear(y) == (y % 4 = 0 /\ y % 100 # 0) \/ y % 400 = 0

DaysInMonth(y, m) ==
    IF m = 2 THEN (IF IsLeapYear(y) THEN 29 ELSE 28)
    ELSE IF m \in {4, 6, 9, 11} THEN 30 ELSE 31

\* Days from 1970-01-01 to the civil date y-m-d.
DaysFromCivil(y, m, d) ==
    LET yy  == IF m <= 2 THEN y - 1 ELSE y
        era == yy \div 400
        yoe == yy - era * 400
        mp  == (m + 9) % 12
        doy == (153 * mp + 2) \div 5 + d - 1
        doe == yoe * 365 + yoe \div 4 - yoe \div 100 + doy
    IN  era * 146097 + doe - 719468

\* new Date(dateStr) for the "YYYY-MM-DD" strings the cell coercer writes:
\* midnight of that day; any other string is an Invalid Date (<<>>).
NewDate(s) ==
    IF /\ Len(s) = 10
       /\ s[5] = "-" /\ s[8] = "-"
       /\ \A i \in {1, 2, 3, 4, 6, 7, 9, 10} : IsDigit(s[i])
    THEN LET y == decimal(SubSeq(s, 1, 4))
             m == decimal(SubSeq(s, 6, 7))
             d == decimal(SubSeq(s, 9, 10))
         IN  IF m \in 1..12 /\ d >= 1 /\ d <= DaysInMonth(y, m)
             THEN <<DaysFromCivil(y, m, d) * MinutesPerDay>>
             ELSE <<>>
    ELSE <<>>

\* startOfDay(date)
startOfDay(date) ==
    IF date = <<>> THEN <<>> ELSE <<(date[1] \div MinutesPerDay) * MinutesPerDay>>

(***************************************************************************)
(* The unit table                                                          *)
(***************************************************************************)
UNIT_SEQUENCE ==
    [u \in {"KR1", "KR2"} |-> [group |-> "KR", order |-> 1]] @@
    [u \in {"BOF1", "BOF2", "BOF3", "BOF4", "BOF5"} |-> [group |-> "BOF", order |-> 2]] @@
    [u \in {"LF1", "LF2", "LF3", "LF4", "LF5"} |-> [group |-> "LF", order |-> 3]] @@
    [u \in {"BCM1", "BCM2", "BCM3", "TSC1", "TSC2"} |-> [group |-> "CASTER", order |-> 4]]

\* The lower-case spellings of the unit strings of the model.
LowerCaseUnits ==
    [u \in {"bof1"} |-> "BOF1"] @@ [u \in {"tsc1"} |-> "TSC1"] @@ [u \in {"xyz9"} |-> "XYZ9"]

\* unit.toUpperCase()
toUpperCase(u) == IF u \in DOMAIN LowerCaseUnits THEN LowerCaseUnits[u] ELSE u

\* UNIT_SEQUENCE[row.unit.toUpperCase()], <<>> when undefined
unitInfoOf(unit) ==
    IF toUpperCase(unit) \in DOMAIN UNIT_SEQUENCE
    THEN <<UNIT_SEQUENCE[toUpperCase(unit)]>>
    ELSE <<>>

(***************************************************************************)
(* parseTimeWithDate                                                       *)
(***************************************************************************)
\* new Date(year, month, date, hours, minutes) on the calendar day of
\* targetDate: hours above 23 and minutes above 59 carry over.
dateAt(targetDate, hours, minutes) ==
    (targetDate \div MinutesPerDay) * MinutesPerDay + hours * 60 + minutes

\* Variant of the overnight test with the comparison reversed; the overnight
\* property must tell it from isBeforePrev.
isAfterPrev(currentTime, prevTime) == prevTime # <<>> /\ currentTime > prevTime[1]

\* currentTime < prevTime, the test of the overnight rule
isBeforePrev(currentTime, prevTime) == prevTime # <<>> /\ currentTime < prevTime[1]

\* dateStr, hhmm: strings; baseDate, prevTime: optional Dates.  The result is
\* an optional Date (<<>> is null).
parseTimeWithDate(dateStr, hhmm, baseDate, prevTime) ==
    IF hhmm = <<>> THEN <<>>
    ELSE
      LET parts   == split(hhmm)
          hours   == Number(parts[1])
          minutes == IF Len(parts) >= 2 THEN Number(parts[2]) ELSE <<>>
      IN  IF hours = <<>> \/ minutes = <<>> THEN <<>>
          ELSE
            LET targetDate == IF dateStr # <<>> THEN NewDate(dateStr) ELSE baseDate
            IN  IF targetDate = <<>> THEN <<>>
                ELSE
                  LET currentTime == dateAt(targetDate[1], hours[1], minutes[1])
                  IN  IF isBeforePrev(currentTime, prevTime)
                      THEN <<currentTime + MinutesPerDay>>
                      ELSE <<currentTime>>

(***************************************************************************)
(* Sorting                                                                 *)
(***************************************************************************)
\* A seqNum is <<tag, n>>: <<"undefined", 0>> (no sequence column),
\* <<"blank", 0>> (the string "" of a blank cell), <<"NaN", 0>> (Number of a
\* cell that is no number) or <<"number", n>>.
seqNumToNumber(x) == IF x[1] = "NaN" THEN <<>> ELSE <<x[2]>>

\* a !== b on two seqNum values
seqNumStrictNotEqual(x, y) == x[1] = "NaN" \/ y[1] = "NaN" \/ x # y

\* The comparator of heatRows.sort.  A NaN result is the number 0 for sort.
compareRowsForParsing(a, b) ==
    IF /\ a.seqNum[1] # "undefined" /\ b.seqNum[1] # "undefined"
       /\ seqNumStrictNotEqual(a.seqNum, b.seqNum)
    THEN IF seqNumToNumber(a.seqNum) = <<>> \/ seqNumToNumber(b.seqNum) = <<>>
         THEN 0
         ELSE seqNumToNumber(a.seqNum)[1] - seqNumToNumber(b.seqNum)[1]
    ELSE IF a.startStr # <<>> /\ b.startStr # <<>> /\ a.startStr # b.startStr
         THEN localeCompare(a.startStr, b.startStr)
         ELSE a.rawIndex - b.rawIndex

IndexPermutations(n) ==
    {p \in [1..n -> 1..n] : \A i, j \in 1..n : i # j => p[i] # p[j]}

\* A comparator on the elements of an array s is given by its results
\* c[i][j] on s[i] and s[j].  Whether it is consistent on them (ECMAScript's
\* definition): the results are antisymmetric in sign and "c <= 0" is
\* transitive.
IsConsistentComparator(n, c) ==
    /\ \A i, j \in 1..n :
          /\ c[i][j] < 0 <=> c[j][i] > 0
          /\ c[i][j] = 0 <=> c[j][i] = 0
    /\ \A i, j, k \in 1..n :
          c[i][j] <= 0 /\ c[j][k] <= 0 => c[i][k] <= 0

\* Whether p is the permutation a stable sort by c applies.
IsStableSort(n, p, c) ==
    \A k, l \in 1..n :
        k < l => \/ c[p[k]][p[l]] < 0
                 \/ c[p[k]][p[l]] = 0 /\ p[k] < p[l]

\* What Array.prototype.sort may leave in the array: the stable sort when the
\* comparator is consistent on the elements, any order otherwise (the order
\* is then implementation-defined).
sortOutcomes(s, c) ==
    UNION {{[k \in 1..Len(s) |-> s[p[k]]] :
               p \in IF IsConsistentComparator(Len(s), m)
                     THEN {q \in IndexPermutations(Len(s)) : IsStableSort(Len(s), q, m)}
                     ELSE IndexPermutations(Len(s))} : m \in {c}}

compareOpsByStartTime(a, b) == a.startTime - b.startTime

\* tempOps.sort((a,b) => a.startTime.getTime() - b.startTime.getTime())
sortByStartTime(s) ==
    CHOOSE r \in sortOutcomes(s,
               [i \in 1..Len(s) |-> [j \in 1..Len(s) |->
                   compareOpsByStartTime(s[i], s[j])]]) : TRUE

\* s.filter(...): the elements of s at the indices idx, in the order of s
filterSeq(s, idx) ==
    [k \in 1..Cardinality(idx) |->
        s[CHOOSE i \in idx : Cardinality({j \in idx : j < i}) = k - 1]]

\* Variant of sumSeq whose reduction forgets the accumulator.
lastSummand(s) == IF s = <<>> THEN 0 ELSE s[Len(s)]

RECURSIVE sumSeq(_)
sumSeq(s) == IF s = <<>> THEN 0 ELSE Head(s) + sumSeq(Tail(s))

\* Math.round of a whole number of minutes (every Date of the model is one).
round(x) == x

(***************************************************************************)
(* validateAndTransform: grouping                                          *)
(***************************************************************************)
\* Heat ids that are canonical array indices: for-in visits these first, in
\* ascending numeric order, and the other keys after them in insertion order.
ArrayIndexKeys == [k \in {"7091"} |-> 7091]

\* The keys of groupBy(rows, 'heatId') in insertion order.
insertionKeys(rs) ==
    LET first == filterSeq(rs, {i \in 1..Len(rs) :
                                  \A j \in 1..(i - 1) : rs[j].heatId # rs[i].heatId})
    IN  [k \in 1..Len(first) |-> first[k].heatId]

compareArrayIndexKeys(a, b) == ArrayIndexKeys[a] - ArrayIndexKeys[b]

\* The order in which "for (const heatId in heats)" visits the heats.
heatKeys(rs) ==
    LET keys == insertionKeys(rs)
        idx  == filterSeq(keys, {i \in 1..Len(keys) : keys[i] \in DOMAIN ArrayIndexKeys})
        strs == filterSeq(keys, {i \in 1..Len(keys) : keys[i] \notin DOMAIN ArrayIndexKeys})
    IN  (CHOOSE r \in sortOutcomes(idx,
                 [i \in 1..Len(idx) |-> [j \in 1..Len(idx) |->
                     compareArrayIndexKeys(idx[i], idx[j])]]) : TRUE)
           \o strs

\* Variant of heatRowsOf that does not group: every row, whatever its heat.
rowsOfAnyHeat(rs, h) == rs

\* heats[heatId]: the rows of the heat, in input order
heatRowsOf(rs, h) == filterSeq(rs, {i \in 1..Len(rs) : rs[i].heatId = h})

\* Variant of baseDateOf that reads the clock whatever the first row says.
baseDateOfToday(rs, day) == startOfDay(<<day * MinutesPerDay>>)

\* const baseDate = rows.length > 0 && rows[0].dateStr ? startOfDay(new Date(
\* rows[0].dateStr)) : startOfDay(new Date())
baseDateOf(rs, day) ==
    IF Len(rs) > 0 /\ rs[1].dateStr # <<>>
    THEN startOfDay(NewDate(rs[1].dateStr))
    ELSE startOfDay(<<day * MinutesPerDay>>)

(***************************************************************************)
(* validateAndTransform: first pass over the rows of one heat              *)
(***************************************************************************)
\* duration < 0, the test of the end-before-start rule
isInvalidDuration(duration) == duration < 0

unitError(h, row) ==
    [heat_id |-> h, kind |-> "UNIT", unit |-> <<row.unit>>,
     message |-> <<"Don vi khong xac dinh", row.unit>>, opIndex |-> <<row.rawIndex>>]

startFormatError(h, row) ==
    [heat_id |-> h, kind |-> "FORMAT", unit |-> <<row.unit>>,
     message |-> <<"Thoi gian bat dau khong hop le", row.startStr>>,
     opIndex |-> <<row.rawIndex>>]

endFormatError(h, row) ==
    [heat_id |-> h, kind |-> "FORMAT", unit |-> <<row.unit>>,
     message |-> <<"Thoi gian ket thuc khong hop le", row.endStr>>,
     opIndex |-> <<row.rawIndex>>]

durationError(h, row) ==
    [heat_id |-> h, kind |-> "TIME", unit |-> <<row.unit>>,
     message |-> <<"Thoi gian ket thuc phai sau thoi gian bat dau">>,
     opIndex |-> <<row.rawIndex>>]

\* The operation pushed on tempOps.
newOperation(row, unitInfo, startTime, endTime) ==
    [unit             |-> row.unit,
     group            |-> unitInfo.group,
     sequence_order   |-> IF row.seqNum[1] = "undefined"
                          THEN <<"number", unitInfo.order>> ELSE row.seqNum,
     startTime        |-> startTime,
     endTime          |-> endTime,
     Duration_min     |-> round(endTime - startTime),
     idleTimeMinutes  |-> <<>>,
     raw              |-> row]

\* One turn of "for (const row of sortedRowsForParsing)".  acc holds the
\* errors pushed, tempOps, lastOpEndTime and heatHasFatalError.
firstPassRow(acc, row, h, baseDate) ==
    LET unitInfo == unitInfoOf(row.unit)
    IN  IF unitInfo = <<>>
        THEN [acc EXCEPT !.errors = Append(@, unitError(h, row))]
        ELSE
          LET startTime == parseTimeWithDate(row.dateStr, row.startStr, baseDate,
                                             acc.lastOpEndTime)
          IN  IF startTime = <<>>
              THEN [acc EXCEPT !.errors = Append(@, startFormatError(h, row)),
                               !.heatHasFatalError = TRUE]
              ELSE
                LET endTime == parseTimeWithDate(row.dateStr, row.endStr, baseDate,
                                                 startTime)
                IN  IF endTime = <<>>
                    THEN [acc EXCEPT !.errors = Append(@, endFormatError(h, row)),
                                     !.heatHasFatalError = TRUE]
                    ELSE IF isInvalidDuration(endTime[1] - startTime[1])
                    THEN [acc EXCEPT !.errors = Append(@, durationError(h, row)),
                                     !.heatHasFatalError = TRUE]
                    ELSE [acc EXCEPT
                            !.tempOps = Append(@, newOperation(row, unitInfo[1],
                                                               startTime[1], endTime[1])),
                            !.lastOpEndTime = endTime]

RECURSIVE firstPassFrom(_, _, _, _, _)
firstPassFrom(acc, sorted, i, h, baseDate) ==
    IF i > Len(sorted) THEN acc
    ELSE firstPassFrom(firstPassRow(acc, sorted[i], h, baseDate), sorted, i + 1, h, baseDate)

firstPass(sorted, h, baseDate) ==
    firstPassFrom([errors |-> <<>>, tempOps |-> <<>>, lastOpEndTime |-> <<>>,
                   heatHasFatalError |-> FALSE],
                  sorted, 1, h, baseDate)

(***************************************************************************)
(* validateAndTransform: the rules on the operations sorted by start time  *)
(***************************************************************************)
\* Variant of the overlap test that compares the two start times; the
\* ordering property must tell it from overlaps.
startsBeforePrevStart(op, prev) == op.startTime < prev.startTime

\* ops[i].startTime < ops[i - 1].endTime
overlaps(op, prev) == op.startTime < prev.endTime

overlapError(h, op, prev) ==
    [heat_id |-> h, kind |-> "TIME", unit |-> <<>>,
     message |-> <<"Chong cheo thoi gian", op.unit, prev.unit>>, opIndex |-> <<>>]

overlapErrors(o, h) ==
    LET at == filterSeq([i \in 1..Len(o) |-> i],
                        {i \in 2..Len(o) : overlaps(o[i], o[i - 1])})
    IN  [k \in 1..Len(at) |-> overlapError(h, o[at[k]], o[at[k] - 1])]

\* The keys of groupCounts, in insertion order.
groupKeysOf(o) ==
    LET first == filterSeq(o, {i \in 1..Len(o) :
                                 \A j \in 1..(i - 1) : o[j].group # o[i].group})
    IN  [k \in 1..Len(first) |-> first[k].group]

\* groupCounts[group]
groupCount(o, group) == Cardinality({i \in 1..Len(o) : o[i].group = group})

\* Variant of the duplicate rule without the exception for LF; the group
\* exclusivity property must tell it from isForbiddenDuplicate.
isDuplicate(group, count) == count > 1

\* group !== 'LF' && groupCounts[group] > 1
isForbiddenDuplicate(group, count) == group # "LF" /\ count > 1

duplicateGroupError(h, o, group) ==
    LET inGroup == filterSeq(o, {i \in 1..Len(o) : o[i].group = group})
    IN  [heat_id |-> h, kind |-> "ROUTING", unit |-> <<>>,
         message |-> <<"Me khong the chay tren nhieu thiet bi cung nhom", group,
                       [k \in 1..Len(inGroup) |-> inGroup[k].unit]>>,
         opIndex |-> <<>>]

duplicateGroupErrors(o, h) ==
    LET keys == groupKeysOf(o)
        bad  == filterSeq(keys, {i \in 1..Len(keys) :
                                   isForbiddenDuplicate(keys[i], groupCount(o, keys[i]))})
    IN  [k \in 1..Len(bad) |-> duplicateGroupError(h, o, bad[k])]

\* ops.filter(op => op.group === 'LF')
lfOpsOf(o) == filterSeq(o, {i \in 1..Len(o) : o[i].group = "LF"})

\* ops.find(op => op.group === 'BOF'), <<>> when undefined
bofOpOf(o) ==
    LET bofs == filterSeq(o, {i \in 1..Len(o) : o[i].group = "BOF"})
    IN  IF bofs = <<>> THEN <<>> ELSE <<bofs[1]>>

\* Variant of the missing-BOF test that lets a single LF operation pass; the
\* LF property must tell it from lacksBof.
lacksBofForSeveralLf(lfOps, bofOp) == Len(lfOps) > 1 /\ bofOp = <<>>

\* lfOps.length > 0 && !bofOp
lacksBof(lfOps, bofOp) == Len(lfOps) > 0 /\ bofOp = <<>>

missingBofErrors(o, h) ==
    IF lacksBof(lfOpsOf(o), bofOpOf(o))
    THEN <<[heat_id |-> h, kind |-> "ROUTING",
            unit |-> [k \in 1..Len(lfOpsOf(o)) |-> lfOpsOf(o)[k].unit],
            message |-> <<"Tim thay cong doan LF nhung khong co cong doan BOF truoc do">>,
            opIndex |-> <<>>]>>
    ELSE <<>>

\* lfOp.startTime < bofOp.endTime
startsBeforeBofEnds(lfOp, bofOp) == lfOp.startTime < bofOp.endTime

lfBeforeBofErrors(o, h) ==
    IF bofOpOf(o) # <<>> /\ Len(lfOpsOf(o)) > 0
    THEN LET lfOps == lfOpsOf(o)
             early == filterSeq(lfOps, {i \in 1..Len(lfOps) :
                                          startsBeforeBofEnds(lfOps[i], bofOpOf(o)[1])})
         IN  [k \in 1..Len(early) |->
                 [heat_id |-> h, kind |-> "ROUTING", unit |-> <<>>,
                  message |-> <<"LF bat dau truoc khi BOF ket thuc", early[k].unit,
                                bofOpOf(o)[1].unit>>,
                  opIndex |-> <<>>]]
    ELSE <<>>

\* Every error the final rules push for the sorted operations o, in order.
validationErrors(o, h) ==
    overlapErrors(o, h) \o duplicateGroupErrors(o, h) \o missingBofErrors(o, h)
        \o lfBeforeBofErrors(o, h)

(***************************************************************************)
(* validateAndTransform: the heat that is pushed                           *)
(***************************************************************************)
\* ops after the idle times are assigned (o is not empty)
\* Variant of withIdleTimes that measures the idle time from the start of the
\* preceding operation.
withIdleTimesSinceStart(o) ==
    [i \in 1..Len(o) |->
        [o[i] EXCEPT !.idleTimeMinutes =
            IF i = 1 THEN <<0>>
            ELSE <<round(o[i].startTime - o[i - 1].startTime)>>]]

withIdleTimes(o) ==
    [i \in 1..Len(o) |->
        [o[i] EXCEPT !.idleTimeMinutes =
            IF i = 1 THEN <<0>>
            ELSE <<round(o[i].startTime - o[i - 1].endTime)>>]]

\* ({raw, ...op}) => op
withoutRaw(op) ==
    [unit |-> op.unit, group |-> op.group, sequence_order |-> op.sequence_order,
     startTime |-> op.startTime, endTime |-> op.endTime,
     Duration_min |-> op.Duration_min, idleTimeMinutes |-> op.idleTimeMinutes]

newHeat(h, heatRows, o) ==
    [Heat_ID       |-> h,
     Steel_Grade   |-> heatRows[1].steelGrade,
     operations    |-> [k \in 1..Len(o) |-> withoutRaw(o[k])],
     isComplete    |-> \E i \in 1..Len(o) : o[i].group = "CASTER",
     totalDuration |-> sumSeq([k \in 1..Len(o) |-> o[k].Duration_min]),
     totalIdleTime |-> sumSeq([k \in 1..Len(o) |->
                          IF o[k].idleTimeMinutes = <<>> THEN 0 ELSE o[k].idleTimeMinutes[1]])]

(***************************************************************************)
(* What the chart reads from a heat                                        *)
(***************************************************************************)
\* The null of "sequenceInCaster?: number | null".
Null == "null"

\* heat.sequenceInCaster, <<>> when the heat has no such property
sequenceInCasterOf(heat) ==
    IF "sequenceInCaster" \in DOMAIN heat THEN <<heat.sequenceInCaster>> ELSE <<>>

\* heat.castingMachine, <<>> when the heat has no such property
castingMachineOf(heat) ==
    IF "castingMachine" \in DOMAIN heat THEN <<heat.castingMachine>> ELSE <<>>

\* The CASTER operation of the heat with the greatest startTime, <<>> if none.
lastCasterOpOf(heat) ==
    LET casters == filterSeq(heat.operations,
                             {i \in 1..Len(heat.operations) :
                                heat.operations[i].group = "CASTER"})
    IN  IF casters = <<>> THEN <<>>
        ELSE <<CHOOSE op \in {casters[i] : i \in 1..Len(casters)} :
                   \A i \in 1..Len(casters) : casters[i].startTime <= op.startTime>>

\* The production day of a time: the calendar day of the time 8 hours before.
productionDayOf(time) == (time - 8 * 60) \div MinutesPerDay

(***************************************************************************)
(* validateAndTransform: the loop over the heats                           *)
(***************************************************************************)
\* One iteration of "for (const heatId in heats)".  The iteration throws a
\* TypeError at "ops[0].idleTimeMinutes = 0" when ops is empty.
\* The message of the TypeError of "ops[0].idleTimeMinutes = 0" on an empty ops.
TypeErrorMessage == <<"Cannot set properties of undefined (setting 'idleTimeMinutes')">>

ProcessHeat ==
    /\ pc = "loop"
    /\ next <= Len(heatKeys(rows))
    /\ LET h == heatKeys(rows)[next]
           heatRows == heatRowsOf(rows, h)
       IN  \E sorted \in
               IF run = 2 /\ next <= Len(firstRun.sorted)
               THEN {firstRun.sorted[next]}
               ELSE sortOutcomes(heatRows,
                        [i \in 1..Len(heatRows) |-> [j \in 1..Len(heatRows) |->
                            compareRowsForParsing(heatRows[i], heatRows[j])]]) :
             LET fp    == firstPass(sorted, h, baseDateOf(rows, today))
                 o     == sortByStartTime(fp.tempOps)
                 verrs == validationErrors(o, h)
             IN  /\ heatId' = h
                 /\ sortedRowsForParsing' = sorted
                 /\ tempOps' = fp.tempOps
                 /\ heatHasFatalError' = fp.heatHasFatalError
                 /\ IF fp.heatHasFatalError
                    THEN /\ errors' = errors \o fp.errors
                         /\ ops' = <<>>
                         /\ hasValidationError' = FALSE
                         /\ validHeats' = validHeats
                         /\ pc' = "loop"
                    ELSE /\ errors' = errors \o fp.errors \o verrs
                         /\ hasValidationError' = (verrs # <<>>)
                         /\ IF verrs # <<>>
                            THEN /\ ops' = o
                                 /\ validHeats' = validHeats
                                 /\ pc' = "loop"
                            ELSE IF o = <<>>
                            THEN /\ ops' = o
                                 /\ validHeats' = validHeats
                                 /\ pc' = "thrown"
                                 /\ thrown' = <<TypeErrorMessage>>
                            ELSE /\ ops' = withIdleTimes(o)
                                 /\ validHeats' = Append(validHeats,
                                                         newHeat(h, sorted, withIdleTimes(o)))
                                 /\ pc' = "loop"
                 /\ (fp.heatHasFatalError \/ verrs # <<>> \/ o # <<>>) => thrown' = thrown
                 /\ next' = next + 1
                 /\ firstRun' = IF run = 1
                                 THEN [firstRun EXCEPT !.sorted = Append(@, sorted)]
                                 ELSE firstRun
    /\ UNCHANGED <<sheet, parseWarnings, pageVars, rows, today, run, isLoading, uploads,
                   loaded>>

\* return { validHeats, errors }
Return ==
    /\ pc = "loop"
    /\ next > Len(heatKeys(rows))
    /\ pc' = "returned"
    /\ UNCHANGED <<sheet, parseWarnings, thrown, pageVars, rows, today, validateVars,
                   run, firstRun, isLoading, uploads, loaded>>

Next == ProcessHeat \/ Return

\* A second call validateAndTransform(rows) on the rows of the first call, on
\* the same day or the day after: new Date() is read again, the locals are
\* new, and Array.prototype.sort, a deterministic procedure of the engine,
\* returns for the same array and comparator what it returned before.
RunAgain ==
    /\ pc \in {"returned", "thrown"}
    /\ run = 1
    /\ firstRun' = [firstRun EXCEPT !.outcome =
                        <<[pc |-> pc, validHeats |-> validHeats, errors |-> errors,
                           today |-> today]>>]
    /\ run' = 2
    /\ today' \in {today, today + 1}
    /\ thrown' = <<>>
    /\ next' = 1
    /\ errors' = <<>>
    /\ validHeats' = <<>>
    /\ heatId' = Undefined
    /\ sortedRowsForParsing' = <<>>
    /\ tempOps' = <<>>
    /\ heatHasFatalError' = FALSE
    /\ ops' = <<>>
    /\ hasValidationError' = FALSE
    /\ pc' = "loop"
    /\ UNCHANGED <<sheet, parseWarnings, pageVars, rows, isLoading, uploads, loaded>>

NextTwice == ProcessHeat \/ Return \/ RunAgain

(***************************************************************************)
(* excel-parser.ts: headers and cells                                      *)
(***************************************************************************)
MAPPING ==
    [k \in {"thoigian", "date"} |-> "dateStr"] @@
    [k \in {"methep", "heatid", "heat_id"} |-> "heatId"] @@
    [k \in {"macthep", "steelgrade", "steel_grade"} |-> "steelGrade"] @@
    [k \in {"congdoan", "unit"} |-> "unit"] @@
    [k \in {"thoigianbatdau", "starttime", "start_time"} |-> "startStr"] @@
    [k \in {"thoigianketthuc", "endtime", "end_time"} |-> "endStr"] @@
    [k \in {"seq", "sequencenumber", "sequence_number"} |-> "seqNum"]

\* Variant of REQUIRED_KEYS that does not require the steel grade.
RequiredKeysWithoutGrade == <<"heatId", "unit", "startStr", "endStr">>

REQUIRED_KEYS == <<"heatId", "steelGrade", "unit", "startStr", "endStr">>

\* normalizeHeader on the headers of the model: lower case, no diacritical
\* marks, no spaces, no underscores.
NormalizedHeaders ==
    [h \in {""} |-> ""] @@
    [h \in {"Heat_ID"} |-> "heatid"] @@
    [h \in {"Steel Grade"} |-> "steelgrade"] @@
    [h \in {"Unit"} |-> "unit"] @@
    [h \in {"Start_Time"} |-> "starttime"] @@
    [h \in {"End_Time"} |-> "endtime"] @@
    [h \in {"Ghi chu"} |-> "ghichu"]

normalizeHeader(header) == NormalizedHeaders[header]

\* String(h || '') of a header cell
rawHeaderOf(h) == IF "text" \in DOMAIN h THEN h.text ELSE ""

\* cell === null || cell === '' || cell === undefined
isBlankCell(cell) ==
    \/ "null" \in DOMAIN cell
    \/ "text" \in DOMAIN cell /\ cell.text = ""
    \/ "chars" \in DOMAIN cell /\ cell.chars = <<>>

RECURSIVE trimStart(_)
trimStart(s) == IF s # <<>> /\ Head(s) = " " THEN trimStart(Tail(s)) ELSE s

RECURSIVE trimEnd(_)
trimEnd(s) ==
    IF s # <<>> /\ s[Len(s)] = " " THEN trimEnd(SubSeq(s, 1, Len(s) - 1)) ELSE s

\* String.prototype.trim on a sequence of characters
trim(s) == trimEnd(trimStart(s))

\* String.prototype.trim on the TLA+ strings of the model that have white
\* space around them.
TrimmedTexts == [s \in {" BOF1 "} |-> "BOF1"]

trimText(s) == IF s \in DOMAIN TrimmedTexts THEN TrimmedTexts[s] ELSE s

\* formatValue on a null cell and on a cell holding a string
formatValue(value) ==
    CASE "null" \in DOMAIN value -> value.null
      [] "text" \in DOMAIN value -> trimText(value.text)
      [] "chars" \in DOMAIN value -> trim(value.chars)

\* /^\d{1,2}:\d{2}$/.test(s)
timeRegexTest(s) ==
    /\ Len(s) \in {4, 5}
    /\ s[Len(s) - 2] = ":"
    /\ \A i \in 1..Len(s) : i # Len(s) - 2 => IsDigit(s[i])

(***************************************************************************)
(* excel-parser.ts: processRows                                            *)
(***************************************************************************)
\* The columns (from 1) whose header maps to key.
keyColumns(headers, key) ==
    {c \in 1..Len(headers) :
        /\ normalizeHeader(rawHeaderOf(headers[c])) \in DOMAIN MAPPING
        /\ MAPPING[normalizeHeader(rawHeaderOf(headers[c]))] = key}

\* REQUIRED_KEYS.filter(key => !foundKeys.has(key))
missingKeys(headers) ==
    filterSeq(REQUIRED_KEYS, {i \in 1..Len(REQUIRED_KEYS) :
                                keyColumns(headers, REQUIRED_KEYS[i]) = {}})

EmptySheetMessage == <<"Sheet trong hoac khong co du lieu.">>

missingKeysMessage(keys) == <<"Thieu cac cot bat buoc", keys>>

\* rowData.every(cell => cell === null || cell === '' || cell === undefined)
isEmptyRow(rowData) == \A c \in 1..Len(rowData) : isBlankCell(rowData[c])

\* excelRow[key] after the loop over headerMap: the formatted cell of the last
\* column that maps to key, otherwise the property is undefined.
fieldOf(rowData, headers, key, undefined) ==
    IF keyColumns(headers, key) = {} THEN undefined
    ELSE formatValue(rowData[CHOOSE c \in keyColumns(headers, key) :
                                 \A d \in keyColumns(headers, key) : d <= c])

\* if(finalRow.seqNum) finalRow.seqNum = Number(finalRow.seqNum)
seqNumOf(rowData, headers) ==
    LET text == fieldOf(rowData, headers, "seqNum", <<>>)
    IN  IF keyColumns(headers, "seqNum") = {} THEN <<"undefined", 0>>
        ELSE IF text = <<>> THEN <<"blank", 0>>
        ELSE IF Number(text) = <<>> THEN <<"NaN", 0>>
        ELSE <<"number", Number(text)[1]>>

\* finalRow, with rawIndex: index + 2
excelRowOf(rowData, index, headers) ==
    [rawIndex   |-> index + 2,
     heatId     |-> fieldOf(rowData, headers, "heatId", Undefined),
     steelGrade |-> fieldOf(rowData, headers, "steelGrade", Undefined),
     unit       |-> fieldOf(rowData, headers, "unit", Undefined),
     startStr   |-> fieldOf(rowData, headers, "startStr", <<>>),
     endStr     |-> fieldOf(rowData, headers, "endStr", <<>>),
     dateStr    |-> fieldOf(rowData, headers, "dateStr", <<>>),
     seqNum     |-> seqNumOf(rowData, headers)]

\* Variant of isPlaceholderRow that looks at the unit only.
isPlaceholderUnit(row) == row.unit = "0"

\* finalRow.unit === '0' || (finalRow.startStr === '00:00' && finalRow.endStr === '00:00')
isPlaceholderRow(row) ==
    \/ row.unit = "0"
    \/ /\ row.startStr = <<"0", "0", ":", "0", "0">>
       /\ row.endStr = <<"0", "0", ":", "0", "0">>

\* (startStr && !timeRegex.test(startStr)) || (endStr && !timeRegex.test(endStr))
hasBadTimeFormat(row) ==
    \/ row.startStr # <<>> /\ ~timeRegexTest(row.startStr)
    \/ row.endStr # <<>> /\ ~timeRegexTest(row.endStr)

\* finalRow.heatId || `Hang ${finalRow.rawIndex}`
warningHeatId(row) ==
    IF row.heatId # "" THEN row.heatId ELSE "Hang " \o ToString(row.rawIndex)

placeholderWarning(row) ==
    [heat_id |-> warningHeatId(row), kind |-> "PLACEHOLDER", unit |-> <<>>,
     message |-> <<"Bo qua hang giu cho">>, opIndex |-> <<>>]

formatWarning(row) ==
    [heat_id |-> warningHeatId(row), kind |-> "FORMAT", unit |-> <<>>,
     message |-> <<"Dinh dang thoi gian khong hop le o hang", row.rawIndex,
                   row.startStr, row.endStr>>,
     opIndex |-> <<>>]

\* The callback of dataRows.forEach: acc is [rows, warnings].
processRow(acc, rowData, index, headers) ==
    LET finalRow == excelRowOf(rowData, index, headers)
    IN  IF isEmptyRow(rowData) THEN acc
        ELSE IF isPlaceholderRow(finalRow)
        THEN [acc EXCEPT !.warnings = Append(@, placeholderWarning(finalRow))]
        ELSE IF hasBadTimeFormat(finalRow)
        THEN [acc EXCEPT !.warnings = Append(@, formatWarning(finalRow))]
        ELSE [acc EXCEPT !.rows = Append(@, finalRow)]

RECURSIVE processRowsFrom(_, _, _, _)
processRowsFrom(acc, dataRows, index, headers) ==
    IF index >= Len(dataRows) THEN acc
    ELSE processRowsFrom(processRow(acc, dataRows[index + 1], index, headers),
                         dataRows, index + 1, headers)

\* The { rows, warnings } processRows returns when it does not throw.
processRows(grid) ==
    processRowsFrom([rows |-> <<>>, warnings |-> <<>>], Tail(grid), 0, grid[1])

\* await parseExcel(file): processRows on the rows of the first sheet.
ProcessRows ==
    /\ pc = "parse"
    /\ IF Len(sheet) < 2
       THEN /\ thrown' = <<EmptySheetMessage>>
            /\ pc' = "parseThrown"
            /\ UNCHANGED <<rows, parseWarnings>>
       ELSE IF missingKeys(sheet[1]) # <<>>
       THEN /\ thrown' = <<missingKeysMessage(missingKeys(sheet[1]))>>
            /\ pc' = "parseThrown"
            /\ UNCHANGED <<rows, parseWarnings>>
       ELSE /\ rows' = processRows(sheet).rows
            /\ parseWarnings' = processRows(sheet).warnings
            /\ pc' = "loop"
            /\ thrown' = thrown
    /\ firstRun' = [firstRun EXCEPT !.rows = rows']
    /\ UNCHANGED <<sheet, today, pageVars, validateVars, run, isLoading, uploads, loaded>>

(***************************************************************************)
(* page.tsx: handleFileProcess after validateAndTransform                  *)
(***************************************************************************)
\* e.kind === 'PLACEHOLDER' || e.kind === 'UNIT'
isWarningKind(kind) == kind = "PLACEHOLDER" \/ kind = "UNIT"

\* setGanttData(validHeats); setValidationErrors(allErrors); setWarnings(allWarnings);
\* finally { setIsLoading(false) }
ShowResult ==
    /\ pc = "returned"
    /\ ganttData' = validHeats
    /\ allErrors' = filterSeq(errors, {i \in 1..Len(errors) : ~isWarningKind(errors[i].kind)})
    /\ warnings' = parseWarnings
                      \o filterSeq(errors, {i \in 1..Len(errors) : isWarningKind(errors[i].kind)})
    /\ isLoading' = FALSE
    /\ pc' = "shown"
    /\ UNCHANGED <<sheet, parseWarnings, thrown, error, rows, today, validateVars,
                   run, firstRun, uploads, loaded>>

\* catch (e) { setError(`Da xay ra loi: ${e.message}`) } finally { setIsLoading(false) }
ShowError ==
    /\ pc \in {"parseThrown", "thrown"}
    /\ error' = <<"Da xay ra loi", thrown[1]>>
    /\ isLoading' = FALSE
    /\ pc' = "failed"
    /\ UNCHANGED <<sheet, parseWarnings, thrown, ganttData, allErrors, warnings, rows,
                   today, validateVars, run, firstRun, uploads, loaded>>

NextFile == ProcessRows \/ ProcessHeat \/ Return \/ ShowResult \/ ShowError

(***************************************************************************)
(* Inputs                                                                  *)
(***************************************************************************)
\* The longest input of the model.
MaxRows == 3

\* The rows the row parser hands over when it keeps every data row of the
\* sheet: row i of the data has rawIndex i + 1.
withRawIndex(data) ==
    [i \in 1..Len(data) |->
        [heatId |-> data[i].heatId, steelGrade |-> data[i].steelGrade,
         unit |-> data[i].unit, startStr |-> data[i].startStr,
         endStr |-> data[i].endStr, dateStr |-> data[i].dateStr,
         seqNum |-> data[i].seqNum, rawIndex |-> i + 1]]

\* The page before an upload, and validateAndTransform at its entry.
InitLocals ==
    /\ parseWarnings = <<>>
    /\ thrown = <<>>
    /\ ganttData = <<>>
    /\ allErrors = <<>>
    /\ warnings = <<>>
    /\ error = <<>>
    /\ next = 1
    /\ errors = <<>>
    /\ validHeats = <<>>
    /\ heatId = Undefined
    /\ sortedRowsForParsing = <<>>
    /\ tempOps = <<>>
    /\ heatHasFatalError = FALSE
    /\ ops = <<>>
    /\ hasValidationError = FALSE
    /\ run = 1
    /\ firstRun = [rows |-> rows, sorted |-> <<>>, outcome |-> <<>>]

InitOver(RowDomain, n) ==
    /\ \E k \in 0..n : \E data \in [1..k -> RowDomain] : rows = withRawIndex(data)
    /\ sheet = <<>>
    /\ InitLocals
    /\ isLoading = FALSE
    /\ uploads = <<>>
    /\ loaded = {}
    /\ today \in {DaysFromCivil(2024, 3, 10)}
    /\ pc = "loop"

t0100 == <<"0", "1", ":", "0", "0">>
t0800 == <<"0", "8", ":", "0", "0">>
t0900 == <<"0", "9", ":", "0", "0">>
t1000 == <<"1", "0", ":", "0", "0">>
t2300 == <<"2", "3", ":", "0", "0">>

d20240310 == <<"2", "0", "2", "4", "-", "0", "3", "-", "1", "0">>
d20240311 == <<"2", "0", "2", "4", "-", "0", "3", "-", "1", "1">>

NoSeqNum == <<"undefined", 0>>

\* Routing inputs: one heat without dates, units of every stage group and an
\* unknown unit in two consecutive hours, and rows without an end time.
RoutingRows ==
    {[heatId |-> "D7090", steelGrade |-> "SS400", unit |-> u, startStr |-> t[1],
      endStr |-> t[2], dateStr |-> <<>>, seqNum |-> NoSeqNum] :
        u \in {"BOF1", "BOF2", "LF1", "LF2", "TSC1", "XYZ9"},
        t \in {<<t0800, t0900>>, <<t0900, t1000>>}}
    \cup
    {[heatId |-> "D7090", steelGrade |-> "SS400", unit |-> u, startStr |-> t0900,
      endStr |-> <<>>, dateStr |-> <<>>, seqNum |-> NoSeqNum] :
        u \in {"BOF1", "LF1"}}

\* Inputs of several heats: two heat ids (one of them an array index key), a
\* unit in lower case, a caster and an unknown unit.
HeatRows ==
    {[heatId |-> h, steelGrade |-> "SS400", unit |-> u, startStr |-> t[1],
      endStr |-> t[2], dateStr |-> <<>>, seqNum |-> NoSeqNum] :
        h \in {"D7090", "7091"},
        u \in {"bof1", "TSC1", "XYZ9"},
        t \in {<<t0800, t0900>>, <<t0900, t1000>>}}

\* Timing inputs: one heat, every pair of three clock times, two consecutive
\* dates.
TimeRows ==
    {[heatId |-> "D7090", steelGrade |-> "SS400", unit |-> u, startStr |-> s,
      endStr |-> e, dateStr |-> d, seqNum |-> NoSeqNum] :
        u \in {"BOF1", "TSC1"},
        s \in {t0100, t0900, t2300},
        e \in {t0100, t0900, t2300},
        d \in {d20240310, d20240311}}

\* The longest input of the timing inputs.
MaxTimeRows == 2

Init == InitOver(RoutingRows, MaxRows) \/ InitOver(HeatRows, MaxRows)

Spec == Init /\ [][Next]_vars

InitTime == InitOver(TimeRows, MaxTimeRows) \/ InitOver(HeatRows, MaxTimeRows)

SpecTime == InitTime /\ [][Next]_vars

\* Inputs of the three-step scenario: heat D7090 on 2024-03-10, a converter,
\* a ladle furnace and a caster, each in one of the three hours 08:00-09:00,
\* 09:30-10:30 and 11:00-12:00.
ScenarioRows ==
    {[heatId |-> "D7090", steelGrade |-> "SS400", unit |-> u, startStr |-> t[1],
      endStr |-> t[2], dateStr |-> d20240310, seqNum |-> NoSeqNum] :
        u \in {"BOF1", "LF1", "TSC1"},
        t \in {<<t0800, t0900>>,
               <<<<"0", "9", ":", "3", "0">>, <<"1", "0", ":", "3", "0">>>>,
               <<<<"1", "1", ":", "0", "0">>, <<"1", "2", ":", "0", "0">>>>}}

SpecScenario == InitOver(ScenarioRows, MaxRows) /\ [][Next]_vars

\* Inputs of the base-date rule: two heats, one hour, rows without a date
\* and rows of two dates, one and three days after the day of the call.
DateRows ==
    {[heatId |-> h, steelGrade |-> "SS400", unit |-> "BOF1", startStr |-> t0800,
      endStr |-> t0900, dateStr |-> d, seqNum |-> NoSeqNum] :
        h \in {"D7090", "D7091"},
        d \in {<<>>, d20240311, <<"2", "0", "2", "4", "-", "0", "3", "-", "1", "3">>}}

SpecDates == InitOver(DateRows, MaxRows) /\ [][Next]_vars

\* Inputs of the parsing order: one heat, three start times of which one has
\* a one-digit hour, no sequence column, a blank sequence cell and two
\* sequence numbers.
SeqRows ==
    {[heatId |-> "D7090", steelGrade |-> "SS400", unit |-> "BOF1", startStr |-> st,
      endStr |-> <<"1", "2", ":", "0", "0">>, dateStr |-> <<>>, seqNum |-> q] :
        st \in {<<"9", ":", "0", "0">>, t1000, <<"1", "1", ":", "0", "0">>},
        q \in {NoSeqNum, <<"blank", 0>>, <<"number", 1>>, <<"number", 2>>}}

SpecSeq == InitOver(SeqRows, MaxRows) /\ [][Next]_vars

\* Inputs of two calls: two heats, a day shift and an overnight operation,
\* rows with and without a date.
TwiceRows ==
    {[heatId |-> h, steelGrade |-> "SS400", unit |-> "BOF1", startStr |-> t[1],
      endStr |-> t[2], dateStr |-> d, seqNum |-> NoSeqNum] :
        h \in {"D7090", "7091"},
        t \in {<<t0800, t0900>>, <<t2300, t0100>>},
        d \in {<<>>, d20240310, d20240311}}

InitTwice == InitOver(TwiceRows, MaxTimeRows) \/ InitOver(HeatRows, MaxTimeRows)

SpecTwice == InitTwice /\ [][NextTwice]_vars

(***************************************************************************)
(* Inputs: sheets                                                          *)
(***************************************************************************)
Text(s) == [text |-> s]

Chars(s) == [chars |-> s]

NullText == [null |-> ""]

NullChars == [null |-> <<>>]

t2500 == <<"2", "5", ":", "0", "0">>
t1275 == <<"1", "2", ":", "7", "5">>
t0000 == <<"0", "0", ":", "0", "0">>

\* The header row with the five required columns.
FullHeader ==
    <<Text("Heat_ID"), Text("Steel Grade"), Text("Unit"), Text("Start_Time"),
      Text("End_Time")>>

\* Header rows in which any of the columns carries a header that maps to no
\* field instead.
HeaderRows ==
    {[c \in 1..Len(FullHeader) |-> IF c \in lost THEN Text("Ghi chu") ELSE FullHeader[c]] :
        lost \in SUBSET (1..Len(FullHeader))}

\* Data rows under FullHeader: a known and an unknown unit, a good and an
\* out-of-range start, an end or none; then rows with one peculiarity each:
\* no heat id, no unit, the placeholders, no start, a start that is not a
\* time, an out-of-range minute, white space around the values, and the
\* empty row.
FileRows ==
    {<<Text("D7090"), Text("SS400"), Text(u), Chars(st), e>> :
        u \in {"BOF1", "XYZ9"}, st \in {t0800, t2500}, e \in {Chars(t0900), NullChars}}
    \cup
    {<<NullText, Text("SS400"), Text("BOF1"), Chars(t0800), Chars(t0900)>>,
     <<Text("D7090"), Text("SS400"), NullText, Chars(t0800), Chars(t0900)>>,
     <<Text("D7090"), Text("SS400"), Text("0"), Chars(t0800), Chars(t0900)>>,
     <<Text("D7090"), Text("SS400"), Text("BOF1"), Chars(t0000), Chars(t0000)>>,
     <<Text("D7090"), Text("SS400"), Text("BOF1"), NullChars, Chars(t0900)>>,
     <<Text("D7090"), Text("SS400"), Text("BOF1"), Chars(<<"8", "h">>), Chars(t0900)>>,
     <<Text("D7090"), Text("SS400"), Text("BOF1"), Chars(t0800), Chars(t1275)>>,
     <<Text("D7090"), Text("SS400"), Text(" BOF1 "), Chars(<<" ">> \o t0800),
       Chars(t0900 \o <<" ">>)>>,
     <<NullText, NullText, NullText, NullChars, NullChars>>}

\* The most data rows of a sheet.
MaxSheetRows == 2

\* Sheets without data or without a required column.
StructureSheets ==
    {<<>>} \cup {<<h>> : h \in HeaderRows}
    \cup {<<h, r>> : h \in HeaderRows \ {FullHeader},
                     r \in {<<Text("D7090"), Text("SS400"), Text("BOF1"), Chars(t0800),
                              Chars(t0900)>>}}

InitFile ==
    /\ \/ sheet \in StructureSheets
       \/ \E k \in 1..MaxSheetRows : \E data \in [1..k -> FileRows] :
             sheet = <<FullHeader>> \o data
    /\ rows = <<>>
    /\ InitLocals
    /\ isLoading = TRUE
    /\ uploads = <<sheet>>
    /\ loaded = {1}
    /\ today \in {DaysFromCivil(2024, 3, 10)}
    /\ pc = "parse"

SpecFile == InitFile /\ [][NextFile]_vars

(***************************************************************************)
(* page.tsx: several uploads                                               *)
(***************************************************************************)
\* The most files handed to the page.
MaxUploads == 2

\* The files: a sheet with one row of heat D7090, a sheet with one row of
\* heat D7091, and a sheet without data rows.
UploadFiles ==
    {<<FullHeader, <<Text(h), Text("SS400"), Text("BOF1"), Chars(t0800), Chars(t0900)>>>> :
        h \in {"D7090", "D7091"}}
    \cup {<<FullHeader>>}

\* handleDrop: onFileProcess(file), whatever isLoading is; handleFileProcess
\* up to its await: setIsLoading(true); resetState(); parseExcel(file) starts
\* to read the file.
HandleFileProcess ==
    /\ pc \in {"idle", "shown", "failed"}
    /\ Len(uploads) < MaxUploads
    /\ \E file \in UploadFiles : uploads' = Append(uploads, file)
    /\ isLoading' = TRUE
    /\ ganttData' = <<>>
    /\ allErrors' = <<>>
    /\ warnings' = <<>>
    /\ error' = <<>>
    /\ UNCHANGED <<sheet, parseWarnings, thrown, rows, today, pc, validateVars, run,
                   firstRun, loaded>>

\* reader.onload of one of the files being read, in any order: its sheet
\* goes to processRows, and the call that awaits it goes on from there to
\* its end before any other event is handled.
OnLoad ==
    /\ pc \in {"idle", "shown", "failed"}
    /\ \E u \in (1..Len(uploads)) \ loaded :
          /\ loaded' = loaded \cup {u}
          /\ sheet' = uploads[u]
    /\ rows' = <<>>
    /\ parseWarnings' = <<>>
    /\ thrown' = <<>>
    /\ next' = 1
    /\ errors' = <<>>
    /\ validHeats' = <<>>
    /\ heatId' = Undefined
    /\ sortedRowsForParsing' = <<>>
    /\ tempOps' = <<>>
    /\ heatHasFatalError' = FALSE
    /\ ops' = <<>>
    /\ hasValidationError' = FALSE
    /\ run' = 1
    /\ firstRun' = [rows |-> <<>>, sorted |-> <<>>, outcome |-> <<>>]
    /\ pc' = "parse"
    /\ UNCHANGED <<pageVars, today, isLoading, uploads>>

NextUploads ==
    \/ HandleFileProcess \/ OnLoad
    \/ ProcessRows \/ ProcessHeat \/ Return \/ ShowResult \/ ShowError

InitUploads ==
    /\ sheet = <<>>
    /\ rows = <<>>
    /\ InitLocals
    /\ isLoading = FALSE
    /\ uploads = <<>>
    /\ loaded = {}
    /\ today \in {DaysFromCivil(2024, 3, 10)}
    /\ pc = "idle"

SpecUploads == InitUploads /\ [][NextUploads]_vars

(***************************************************************************)
(* Notions the properties share                                            *)
(***************************************************************************)
\* validateAndTransform has ended, by a return or by an exception.
Finished == pc \in {"returned", "thrown"}

\* The loop's locals are those of a finished iteration, the one of heatId.
IterationDone == heatId # Undefined

InValidHeats(h) == \E i \in 1..Len(validHeats) : validHeats[i].Heat_ID = h

IsFatalKind(kind) == kind \notin {"UNIT", "PLACEHOLDER"}

HasFatalError(h) ==
    \E i \in 1..Len(errors) : errors[i].heat_id = h /\ IsFatalKind(errors[i].kind)

HasErrorOfKind(h, kind) ==
    \E i \in 1..Len(errors) : errors[i].heat_id = h /\ errors[i].kind = kind

HasUnknownUnit(row) == toUpperCase(row.unit) \notin DOMAIN UNIT_SEQUENCE

\* The clock time of a well-formed HH:MM string, in minutes after midnight.
ClockOf(hhmm) == Number(split(hhmm)[1])[1] * 60 + Number(split(hhmm)[2])[1]

DayOf(time) == time \div MinutesPerDay

OpsOnUnit(o, unit) == {i \in 1..Len(o) : toUpperCase(o[i].unit) = unit}

OpsInGroup(o, group) == {i \in 1..Len(o) : o[i].group = group}

NoConsecutiveOverlap(o) ==
    \A i \in 2..Len(o) : o[i].startTime >= o[i - 1].endTime

(***************************************************************************)
(* C1: validateAndTransform never throws: for every sequence of rows it    *)
(* ends by returning {validHeats, errors}.                                 *)
(* Violated: a heat all of whose rows carry an unknown unit has no fatal   *)
(* error and no operation, and "ops[0].idleTimeMinutes = 0" throws.        *)
(***************************************************************************)
C1_NeverThrows == pc # "thrown"

(***************************************************************************)
(* C2: every operation of every heat in validHeats ends strictly after it  *)
(* starts, and a row whose resolved endTime is at or before its startTime  *)
(* yields a TIME error for the row and its heat is not emitted.            *)
(* Violated: the code rejects only duration < 0, so a row with             *)
(* startStr = endStr becomes an operation of zero minutes.                 *)
(***************************************************************************)
C2_EndStrictlyAfterStart ==
    /\ \A i \in 1..Len(validHeats) :
          \A j \in 1..Len(validHeats[i].operations) :
              validHeats[i].operations[j].endTime > validHeats[i].operations[j].startTime
    /\ IterationDone =>
          \A k \in 1..Len(tempOps) :
              tempOps[k].endTime <= tempOps[k].startTime =>
                 /\ \E i \in 1..Len(errors) :
                       /\ errors[i].heat_id = heatId
                       /\ errors[i].kind = "TIME"
                       /\ errors[i].opIndex = <<tempOps[k].raw.rawIndex>>
                 /\ ~InValidHeats(heatId)

C4_ValidXorFatal ==
    Finished =>
        \A k \in 1..Len(rows) :
            InValidHeats(rows[k].heatId) # HasFatalError(rows[k].heatId)

(***************************************************************************)
(* C5: a heat of two rows with known units of different groups on the same *)
(* date, each ending after it starts on the clock, the second starting     *)
(* before the first one ends, is absent from validHeats and has a TIME     *)
(* error.                                                                  *)
(* Violated: the overnight rule moves the second start to the next day, so *)
(* the overlap rule never sees the overlap and the heat is emitted.        *)
(***************************************************************************)
C5_OverlapRejected ==
    (/\ IterationDone
     /\ Len(sortedRowsForParsing) = 2
     /\ \A k \in 1..2 :
           /\ ~HasUnknownUnit(sortedRowsForParsing[k])
           /\ ClockOf(sortedRowsForParsing[k].startStr)
                 < ClockOf(sortedRowsForParsing[k].endStr)
     /\ unitInfoOf(sortedRowsForParsing[1].unit)[1].group
           # unitInfoOf(sortedRowsForParsing[2].unit)[1].group
     /\ sortedRowsForParsing[1].dateStr = sortedRowsForParsing[2].dateStr
     /\ sortedRowsForParsing[1].rawIndex < sortedRowsForParsing[2].rawIndex
     /\ ClockOf(sortedRowsForParsing[1].startStr)
           <= ClockOf(sortedRowsForParsing[2].startStr)
     /\ ClockOf(sortedRowsForParsing[2].startStr)
           < ClockOf(sortedRowsForParsing[1].endStr))
    => (~InValidHeats(heatId) /\ HasErrorOfKind(heatId, "TIME"))

(***************************************************************************)
(* C6: a heat whose rows all parsed and that has operations on both BOF1   *)
(* and BOF2 gets the duplicate-group ROUTING error for BOF and is not      *)
(* emitted; a heat that has operations on LF1 and LF2, one BOF operation   *)
(* that ends before any LF operation starts, at most one KR and one CASTER *)
(* operation and no overlap is emitted and gets no ROUTING error.          *)
(***************************************************************************)
C6_GroupExclusivity ==
    (IterationDone /\ ~heatHasFatalError) =>
        /\ (OpsOnUnit(ops, "BOF1") # {} /\ OpsOnUnit(ops, "BOF2") # {}) =>
              /\ ~InValidHeats(heatId)
              /\ \E i \in 1..Len(errors) :
                    /\ errors[i].heat_id = heatId
                    /\ errors[i].kind = "ROUTING"
                    /\ errors[i].message[2] = "BOF"
        /\ (/\ OpsOnUnit(ops, "LF1") # {}
            /\ OpsOnUnit(ops, "LF2") # {}
            /\ Cardinality(OpsInGroup(ops, "BOF")) = 1
            /\ Cardinality(OpsInGroup(ops, "KR")) <= 1
            /\ Cardinality(OpsInGroup(ops, "CASTER")) <= 1
            /\ \A l \in OpsInGroup(ops, "LF") : \A b \in OpsInGroup(ops, "BOF") :
                  ops[l].startTime >= ops[b].endTime
            /\ NoConsecutiveOverlap(ops)) =>
              /\ InValidHeats(heatId)
              /\ ~HasErrorOfKind(heatId, "ROUTING")

\* A heat with BOF1, then LF1 and LF2 was emitted.
C6_Witness ==
    /\ IterationDone
    /\ OpsOnUnit(ops, "LF1") # {}
    /\ OpsOnUnit(ops, "LF2") # {}
    /\ OpsOnUnit(ops, "BOF1") # {}
    /\ InValidHeats(heatId)

(***************************************************************************)
(* C7: every emitted heat with an LF operation has a BOF operation and     *)
(* each of its LF operations starts at or after the BOF operation ends;    *)
(* a heat whose rows all parsed, with an LF operation and either no BOF    *)
(* operation or an LF operation that starts before a BOF operation ends,   *)
(* gets a ROUTING error and is not emitted.                                *)
(***************************************************************************)
C7_LfNeedsPrecedingBof ==
    /\ \A i \in 1..Len(validHeats) :
          LET o == validHeats[i].operations
          IN  OpsInGroup(o, "LF") # {} =>
                 /\ OpsInGroup(o, "BOF") # {}
                 /\ \A l \in OpsInGroup(o, "LF") : \A b \in OpsInGroup(o, "BOF") :
                       o[l].startTime >= o[b].endTime
    /\ (/\ IterationDone
        /\ ~heatHasFatalError
        /\ OpsInGroup(ops, "LF") # {}
        /\ \/ OpsInGroup(ops, "BOF") = {}
           \/ \E l \in OpsInGroup(ops, "LF") : \E b \in OpsInGroup(ops, "BOF") :
                 ops[l].startTime < ops[b].endTime) =>
          /\ HasErrorOfKind(heatId, "ROUTING")
          /\ ~InValidHeats(heatId)

\* A heat with an LF operation and no BOF operation was dropped with a
\* ROUTING error.
C7_Witness ==
    /\ IterationDone
    /\ ~heatHasFatalError
    /\ OpsInGroup(ops, "LF") # {}
    /\ OpsInGroup(ops, "BOF") = {}
    /\ HasErrorOfKind(heatId, "ROUTING")
    /\ ~InValidHeats(heatId)

(***************************************************************************)
(* C8: in the heat just processed every row with an unknown unit has       *)
(* exactly one UNIT warning and no operation, and it does not block the    *)
(* heat: the function goes on to return the warnings, and the heat is      *)
(* emitted when it has an operation and its rows raised no fatal error.    *)
(* Violated: a heat whose rows all carry an unknown unit makes the         *)
(* function throw (C1) instead of returning the warnings.                  *)
(***************************************************************************)
C8_UnknownUnitNeverBlocks ==
    (IterationDone /\ \E k \in 1..Len(sortedRowsForParsing) :
                         HasUnknownUnit(sortedRowsForParsing[k])) =>
        /\ \A k \in 1..Len(sortedRowsForParsing) :
              HasUnknownUnit(sortedRowsForParsing[k]) =>
                 /\ Cardinality({i \in 1..Len(errors) :
                        /\ errors[i].heat_id = heatId
                        /\ errors[i].kind = "UNIT"
                        /\ errors[i].opIndex = <<sortedRowsForParsing[k].rawIndex>>}) = 1
                 /\ \A j \in 1..Len(tempOps) : tempOps[j].raw # sortedRowsForParsing[k]
        /\ pc # "thrown"
        /\ (~heatHasFatalError /\ ~hasValidationError /\ tempOps # <<>>) =>
              InValidHeats(heatId)

(***************************************************************************)
(* C9: when the first row parsed for a heat has a known unit, startStr     *)
(* 23:00 and endStr 01:00, it becomes an operation whose endTime is 120    *)
(* minutes after its startTime, on the next calendar day, and the row gets *)
(* no TIME error.                                                          *)
(***************************************************************************)
C9_OvernightInsideOneRow ==
    (/\ IterationDone
     /\ sortedRowsForParsing # <<>>
     /\ ~HasUnknownUnit(sortedRowsForParsing[1])
     /\ sortedRowsForParsing[1].startStr = t2300
     /\ sortedRowsForParsing[1].endStr = t0100) =>
        /\ tempOps # <<>>
        /\ tempOps[1].raw = sortedRowsForParsing[1]
        /\ tempOps[1].endTime - tempOps[1].startTime = 120
        /\ DayOf(tempOps[1].endTime) = DayOf(tempOps[1].startTime) + 1
        /\ ~\E i \in 1..Len(errors) :
              /\ errors[i].heat_id = heatId
              /\ errors[i].kind = "TIME"
              /\ errors[i].opIndex = <<sortedRowsForParsing[1].rawIndex>>

\* A heat whose only row runs from 23:00 to 01:00 was emitted.
C9_Witness ==
    /\ IterationDone
    /\ Len(sortedRowsForParsing) = 1
    /\ sortedRowsForParsing[1].startStr = t2300
    /\ sortedRowsForParsing[1].endStr = t0100
    /\ InValidHeats(heatId)
    /\ tempOps[1].endTime - tempOps[1].startTime = 120

(***************************************************************************)
(* C10: over the emitted validHeats, in every group of heats that share    *)
(* the casting machine and the production day of the caster start, the     *)
(* sequenceInCaster values are exactly 1..N for a group of N heats.        *)
(* Violated: validateAndTransform pushes heats without castingMachine and  *)
(* sequenceInCaster; the chart reads undefined.                            *)
(***************************************************************************)
C10_SequenceContiguity ==
    \A i \in 1..Len(validHeats) :
        lastCasterOpOf(validHeats[i]) # <<>> =>
            LET group == {j \in 1..Len(validHeats) :
                            /\ lastCasterOpOf(validHeats[j]) # <<>>
                            /\ lastCasterOpOf(validHeats[j])[1].unit
                                  = lastCasterOpOf(validHeats[i])[1].unit
                            /\ productionDayOf(lastCasterOpOf(validHeats[j])[1].startTime)
                                  = productionDayOf(lastCasterOpOf(validHeats[i])[1].startTime)}
            IN  {sequenceInCasterOf(validHeats[j]) : j \in group}
                   = {<<n>> : n \in 1..Cardinality(group)}

(***************************************************************************)
(* C11: of two emitted heats whose last caster operation is on the same    *)
(* unit and starts in the same production day (the calendar day of the     *)
(* start minus 8 hours), the one whose caster operation starts earlier has *)
(* the smaller sequenceInCaster; with two such heats on TSC1 that is 1     *)
(* and 2.                                                                  *)
(* Violated: no heat is given a sequenceInCaster (C10).                    *)
(***************************************************************************)
C11_SequenceFollowsCasterStart ==
    \A i, j \in 1..Len(validHeats) :
        (/\ lastCasterOpOf(validHeats[i]) # <<>>
         /\ lastCasterOpOf(validHeats[j]) # <<>>
         /\ lastCasterOpOf(validHeats[i])[1].unit = lastCasterOpOf(validHeats[j])[1].unit
         /\ productionDayOf(lastCasterOpOf(validHeats[i])[1].startTime)
               = productionDayOf(lastCasterOpOf(validHeats[j])[1].startTime)
         /\ lastCasterOpOf(validHeats[i])[1].startTime
               < lastCasterOpOf(validHeats[j])[1].startTime) =>
            /\ sequenceInCasterOf(validHeats[i]) # <<>>
            /\ sequenceInCasterOf(validHeats[j]) # <<>>
            /\ sequenceInCasterOf(validHeats[i])[1] < sequenceInCasterOf(validHeats[j])[1]

(***************************************************************************)
(* C12: every emitted heat with a CASTER operation carries castingMachine, *)
(* the unit of its CASTER operation with the greatest startTime, and every *)
(* emitted heat without a CASTER operation carries sequenceInCaster =      *)
(* null.                                                                   *)
(* Violated: the heats are pushed without either property (C10).           *)
(***************************************************************************)
C12_CastingMachineIsLastCaster ==
    \A i \in 1..Len(validHeats) :
        IF lastCasterOpOf(validHeats[i]) # <<>>
        THEN castingMachineOf(validHeats[i]) = <<lastCasterOpOf(validHeats[i])[1].unit>>
        ELSE sequenceInCasterOf(validHeats[i]) = <<Null>>

(***************************************************************************)
(* Notions of the properties of a whole upload                             *)
(***************************************************************************)
\* handleFileProcess has ended, with a result shown or with an error shown.
UploadDone == pc \in {"shown", "failed"}

\* The sheet has data rows and every required column.
WellStructured == Len(sheet) >= 2 /\ missingKeys(sheet[1]) = <<>>

\* The indices of the non-empty data rows of the sheet; row k has rawIndex k.
DataRowsOf(grid) == {k \in 2..Len(grid) : ~isEmptyRow(grid[k])}

\* The records the upload leaves on the page.
ShownRecords == warnings \o allErrors

InGanttData(h) == \E i \in 1..Len(ganttData) : ganttData[i].Heat_ID = h

\* Row k of the sheet contributed an operation to a heat on the page.
ContributesOperation(k) ==
    \E i \in 1..Len(rows) :
        /\ rows[i].rawIndex = k
        /\ ~HasUnknownUnit(rows[i])
        /\ InGanttData(rows[i].heatId)

\* The heat ids that tag the records of row k: its heatId, and in a warning
\* of processRows the label of the row when the heatId is empty.
TagsOfRow(k) ==
    {excelRowOf(sheet[k], k - 2, sheet[1]).heatId,
     warningHeatId(excelRowOf(sheet[k], k - 2, sheet[1]))}

\* A fatal record tagged with the heat of row k is on the page.
HeatHasFatalRecord(k) ==
    \E i \in 1..Len(ShownRecords) :
        /\ ShownRecords[i].heat_id \in TagsOfRow(k)
        /\ IsFatalKind(ShownRecords[i].kind)

\* An advisory record for row k is on the page: the UNIT warning of the row,
\* or the PLACEHOLDER warning of a placeholder row.
HasAdvisoryRecord(k) ==
    \E i \in 1..Len(ShownRecords) :
        \/ ShownRecords[i].kind = "UNIT" /\ ShownRecords[i].opIndex = <<k>>
        \/ /\ ShownRecords[i].kind = "PLACEHOLDER"
           /\ isPlaceholderRow(excelRowOf(sheet[k], k - 2, sheet[1]))
           /\ ShownRecords[i].heat_id \in TagsOfRow(k)

(***************************************************************************)
(* C13: when an upload of a sheet with data rows and every required column *)
(* has ended, every non-empty data row has exactly one of three outcomes:  *)
(* it contributed an operation to a heat shown, a fatal record tagged with *)
(* its heat is shown, or an advisory record for it is shown.               *)
(* Violated: when validateAndTransform throws (C1) no record of any row is *)
(* left; and a row with an unknown unit in a heat with a fatal error has   *)
(* two of the outcomes.                                                    *)
(***************************************************************************)
C13_TotalityOfClassification ==
    (UploadDone /\ WellStructured) =>
        \A k \in DataRowsOf(sheet) :
            Cardinality({o \in {"operation", "fatal", "advisory"} :
                \/ o = "operation" /\ ContributesOperation(k)
                \/ o = "fatal" /\ HeatHasFatalRecord(k)
                \/ o = "advisory" /\ HasAdvisoryRecord(k)}) = 1

\* C16: processRows raises a single blocking error, and returns no rows and
\* no warnings, when the sheet has fewer than 2 rows and when one of heatId,
\* steelGrade, unit, startStr, endStr has no header mapping to it; the error
\* then names exactly the fields without a header, and it is all the page
\* shows.
C16_StructuralFailureAborts ==
    LET FieldOfHeader == [h \in {"Heat_ID", "Steel Grade", "Unit", "Start_Time", "End_Time"} |->
                             CASE h = "Heat_ID" -> "heatId"
                               [] h = "Steel Grade" -> "steelGrade"
                               [] h = "Unit" -> "unit"
                               [] h = "Start_Time" -> "startStr"
                               [] h = "End_Time" -> "endStr"]
        Required == {"heatId", "steelGrade", "unit", "startStr", "endStr"}
        Unmapped == {f \in Required :
                        \A c \in 1..Len(sheet[1]) :
                            \/ sheet[1][c].text \notin DOMAIN FieldOfHeader
                            \/ FieldOfHeader[sheet[1][c].text] # f}
        Aborted  == /\ pc \in {"parseThrown", "failed"}
                    /\ Len(thrown) = 1
                    /\ rows = <<>> /\ parseWarnings = <<>>
                    /\ ganttData = <<>> /\ allErrors = <<>> /\ warnings = <<>>
                    /\ pc = "failed" => error = <<"Da xay ra loi", thrown[1]>>
    IN  pc # "parse" =>
            /\ Len(sheet) < 2 => (Aborted /\ thrown[1] = EmptySheetMessage)
            /\ (Len(sheet) >= 2 /\ Unmapped # {}) =>
                    /\ Aborted
                    /\ Len(thrown[1]) = 2
                    /\ {thrown[1][2][i] : i \in 1..Len(thrown[1][2])} = Unmapped
                    /\ Len(thrown[1][2]) = Cardinality(Unmapped)

\* The page after a sheet whose header row lacks two of the required
\* columns.
C16_Witness ==
    /\ pc = "failed"
    /\ Len(sheet) = 2
    /\ Len(thrown[1]) = 2
    /\ Len(thrown[1][2]) = 2

\* C17: a row that reaches validateAndTransform with an empty heatId, unit,
\* startStr or endStr yields an error of kind MISSING for its heat, and the
\* heat is not emitted.
C17_EmptyFieldIsMissing ==
    pc = "returned" =>
        \A i \in 1..Len(rows) :
            (\/ rows[i].heatId = "" \/ rows[i].unit = ""
             \/ rows[i].startStr = <<>> \/ rows[i].endStr = <<>>) =>
                /\ \E e \in 1..Len(errors) :
                      errors[e].kind = "MISSING" /\ errors[e].heat_id = rows[i].heatId
                /\ ~InValidHeats(rows[i].heatId)

\* C18: of the records the parse produced, the warnings of processRows and
\* the errors of validateAndTransform alike, the page shows as blocking
\* exactly those of a kind other than UNIT and PLACEHOLDER, and as advisory
\* exactly those of kind UNIT or PLACEHOLDER.
C18_ShownByKind ==
    pc = "shown" =>
        LET produced == parseWarnings \o errors
        IN  /\ allErrors = filterSeq(produced, {i \in 1..Len(produced) :
                                produced[i].kind \notin {"UNIT", "PLACEHOLDER"}})
            /\ warnings = filterSeq(produced, {i \in 1..Len(produced) :
                                produced[i].kind \in {"UNIT", "PLACEHOLDER"}})

\* C19: a heat whose rows all parsed gets the duplicate-group ROUTING error
\* exactly when its operations include two distinct units of one group
\* other than LF.
C19_DuplicateGroupIffDistinctUnits ==
    (IterationDone /\ ~heatHasFatalError) =>
        ((\E e \in 1..Len(errors) :
              /\ errors[e].heat_id = heatId
              /\ errors[e].kind = "ROUTING"
              /\ errors[e].message[1] = "Me khong the chay tren nhieu thiet bi cung nhom")
         <=>
         (\E i, j \in 1..Len(ops) :
              /\ ops[i].group = ops[j].group
              /\ ops[i].group # "LF"
              /\ ops[i].unit # ops[j].unit))

\* C20: when validateAndTransform has returned, every row whose startStr or
\* endStr has an hour above 23 or a minute above 59 (25:00, 12:75) has given
\* its heat an error of kind FORMAT, and the heat is not emitted.
C20_OutOfRangeTimeIsFormatError ==
    pc \in {"returned", "shown"} =>
        \A i \in 1..Len(rows) :
            (rows[i].startStr \in {t2500, t1275} \/ rows[i].endStr \in {t2500, t1275}) =>
                /\ \E e \in 1..Len(errors) :
                      errors[e].kind = "FORMAT" /\ errors[e].heat_id = rows[i].heatId
                /\ ~InValidHeats(rows[i].heatId)

\* The rows are those of the scenario, in any order: BOF1 08:00-09:00,
\* LF1 09:30-10:30 and TSC1 11:00-12:00 of heat D7090 on one date.
IsScenarioD7090 ==
    /\ Len(rows) = 3
    /\ \E i, j, k \in 1..3 :
          /\ rows[i].unit = "BOF1" /\ rows[i].startStr = t0800
          /\ rows[j].unit = "LF1" /\ rows[j].endStr = <<"1", "0", ":", "3", "0">>
          /\ rows[k].unit = "TSC1" /\ rows[k].endStr = <<"1", "2", ":", "0", "0">>

\* C15 as stated: the scenario produces exactly one valid heat with
\* isComplete = true, a total duration of 180 minutes, idle times [0, 30, 30]
\* and totalIdleTime = 90.
C15_ScenarioAsStated ==
    (Finished /\ IsScenarioD7090) =>
        /\ pc = "returned"
        /\ Len(validHeats) = 1
        /\ validHeats[1].isComplete
        /\ validHeats[1].totalDuration = 180
        /\ [k \in 1..3 |-> validHeats[1].operations[k].idleTimeMinutes] = <<<<0>>, <<30>>, <<30>>>>
        /\ validHeats[1].totalIdleTime = 90

\* C15, amended: the scenario produces no error and exactly one valid heat,
\* D7090, with isComplete = true, totalDuration = 180, idle times [0, 30, 30]
\* and totalIdleTime = 60, the sum of the idle times.
C15_ScenarioD7090 ==
    (Finished /\ IsScenarioD7090) =>
        /\ pc = "returned"
        /\ errors = <<>>
        /\ Len(validHeats) = 1
        /\ validHeats[1].Heat_ID = "D7090"
        /\ validHeats[1].isComplete
        /\ validHeats[1].totalDuration = 180
        /\ [k \in 1..3 |-> validHeats[1].operations[k].idleTimeMinutes] = <<<<0>>, <<30>>, <<30>>>>
        /\ validHeats[1].totalIdleTime = 60

\* The scenario has been processed, its rows given in the order caster,
\* ladle furnace, converter.
C15_Witness ==
    /\ Finished
    /\ IsScenarioD7090
    /\ rows[1].unit = "TSC1"
    /\ rows[3].unit = "BOF1"

\* C21: an operation starts on the day its row's times are resolved
\* against, or on the day after when the overnight shift applies (never for
\* the first operation of a heat).  That day is the row's own dateStr when
\* the row has one; otherwise the dateStr of the first row of its heat, when
\* that row has one; and it is today's date only when no row carries a date.
C21_BaseDateRule ==
    IterationDone =>
        \A k \in 1..Len(tempOps) :
            LET r     == tempOps[k].raw
                first == heatRowsOf(rows, heatId)[1]
                day   == tempOps[k].startTime \div MinutesPerDay
                shift == IF k = 1 THEN {0} ELSE {0, 1}
            IN  /\ r.dateStr # <<>> =>
                       \E d \in shift : day = NewDate(r.dateStr)[1] \div MinutesPerDay + d
                /\ (r.dateStr = <<>> /\ first.dateStr # <<>>) =>
                       \E d \in shift : day = NewDate(first.dateStr)[1] \div MinutesPerDay + d
                /\ (r.dateStr = <<>> /\ day = today) =>
                       \A i \in 1..Len(rows) : rows[i].dateStr = <<>>

\* C22: the two rows of a heat are parsed in the order of their seqNum when
\* both have a sequence number and the numbers differ; otherwise, a blank
\* sequence cell included, in the chronological order of their start
\* strings, and in the order of rawIndex when the starts are equal.
C22_ParsingOrder ==
    (IterationDone /\ Len(sortedRowsForParsing) = 2) =>
        LET a == sortedRowsForParsing[1]
            b == sortedRowsForParsing[2]
        IN  IF /\ a.seqNum[1] = "number" /\ b.seqNum[1] = "number"
               /\ a.seqNum[2] # b.seqNum[2]
            THEN a.seqNum[2] < b.seqNum[2]
            ELSE IF ClockOf(a.startStr) # ClockOf(b.startStr)
                 THEN ClockOf(a.startStr) < ClockOf(b.startStr)
                 ELSE a.rawIndex < b.rawIndex

\* C26: on the rows of a heat the comparator of the parsing order is
\* antisymmetric and has no cycle (no rows a, b, c with a before b, b before
\* c and c before a).
C26_ComparatorIsStrictOrder ==
    IterationDone =>
        LET hr == heatRowsOf(rows, heatId)
            before(i, j) == compareRowsForParsing(hr[i], hr[j]) < 0
        IN  /\ \A i, j \in 1..Len(hr) : ~(before(i, j) /\ before(j, i))
            /\ \A i, j, k \in 1..Len(hr) :
                  ~(before(i, j) /\ before(j, k) /\ before(k, i))

C24_RowClassification ==
    (pc # "parse" /\ WellStructured) =>
        LET NotSpace(c) == c # " "
            timeOf(k, c) == IF "chars" \in DOMAIN sheet[k][c]
                            THEN SelectSeq(sheet[k][c].chars, NotSpace) ELSE <<>>
            isTime(t) == /\ Len(t) \in {4, 5}
                         /\ t[Len(t) - 2] = ":"
                         /\ \A i \in (1..Len(t)) \ {Len(t) - 2} :
                               t[i] \in {"0", "1", "2", "3", "4", "5", "6", "7", "8", "9"}
            kindOf(k) ==
                IF \/ ("text" \in DOMAIN sheet[k][3] /\ sheet[k][3].text = "0")
                   \/ (timeOf(k, 4) = t0000 /\ timeOf(k, 5) = t0000)
                THEN "PLACEHOLDER"
                ELSE IF \/ (timeOf(k, 4) # <<>> /\ ~isTime(timeOf(k, 4)))
                        \/ (timeOf(k, 5) # <<>> /\ ~isTime(timeOf(k, 5)))
                THEN "FORMAT"
                ELSE "row"
            index   == [k \in 1..Len(sheet) |-> k]
            kept    == filterSeq(index, {k \in DataRowsOf(sheet) : kindOf(k) = "row"})
            dropped == filterSeq(index, {k \in DataRowsOf(sheet) : kindOf(k) # "row"})
        IN  /\ [i \in 1..Len(rows) |-> rows[i].rawIndex] = kept
            /\ [i \in 1..Len(parseWarnings) |-> parseWarnings[i].kind]
                  = [i \in 1..Len(dropped) |-> kindOf(dropped[i])]
            /\ Len(rows) + Len(parseWarnings) = Cardinality(DataRowsOf(sheet))

\* A sheet of a placeholder row given by its times and a row with a start
\* that is no time has been parsed: two warnings and no row.
C24_Witness ==
    /\ pc # "parse"
    /\ WellStructured
    /\ rows = <<>>
    /\ [i \in 1..Len(parseWarnings) |-> parseWarnings[i].kind] = <<"PLACEHOLDER", "FORMAT">>
    /\ sheet[2][3] = Text("BOF1")

\* C25: a heat whose rows all parsed, that breaks no routing rule and in
\* which an operation starts before the end of the operation before it, is
\* emitted with the overlap.
C25_OverlapPermitted ==
    (/\ IterationDone
     /\ ~heatHasFatalError
     /\ ~HasErrorOfKind(heatId, "ROUTING")
     /\ \E i \in 2..Len(ops) : ops[i].startTime < ops[i - 1].endTime)
        => InValidHeats(heatId)

\* C27: a heat of two rows of one date, given in chronological order, BOF1
\* first and TSC1 second, where TSC1 starts after midnight (at a clock time
\* before the start of BOF1), is emitted, and the start of its TSC1
\* operation is at that clock time on the next calendar day, not before the
\* end of BOF1.
C27_CrossMidnightBetweenRows ==
    LET hr == heatRowsOf(rows, heatId)
    IN  (/\ IterationDone
         /\ Len(hr) = 2
         /\ hr[1].unit = "BOF1" /\ hr[2].unit = "TSC1"
         /\ hr[1].dateStr = hr[2].dateStr
         /\ hr[1].dateStr # <<>>
         /\ hr[1].seqNum = NoSeqNum /\ hr[2].seqNum = NoSeqNum
         /\ ClockOf(hr[1].startStr) < ClockOf(hr[1].endStr)
         /\ ClockOf(hr[2].startStr) < ClockOf(hr[1].startStr)
         /\ ClockOf(hr[2].startStr) < ClockOf(hr[2].endStr))
        => \E h \in 1..Len(validHeats) :
              /\ validHeats[h].Heat_ID = heatId
              /\ \E i, j \in 1..Len(validHeats[h].operations) :
                    LET o == validHeats[h].operations
                    IN  /\ o[i].unit = "BOF1" /\ o[j].unit = "TSC1"
                        /\ o[j].startTime = NewDate(hr[2].dateStr)[1] + MinutesPerDay
                                                + ClockOf(hr[2].startStr)
                        /\ o[j].startTime >= o[i].endTime

\* C28: in every valid heat the operations, which are in the order of their
\* start times, visit the stage groups in the canonical order KR (1),
\* BOF (2), LF (3), CASTER (4), never a later stage before an earlier one.
C28_StageOrder ==
    LET stage == [g \in {"KR", "BOF", "LF", "CASTER"} |->
                     CASE g = "KR" -> 1 [] g = "BOF" -> 2 [] g = "LF" -> 3 [] g = "CASTER" -> 4]
    IN  \A h \in 1..Len(validHeats) :
            LET o == validHeats[h].operations
            IN  \A i, j \in 1..Len(o) :
                    i < j => /\ o[i].startTime <= o[j].startTime
                             /\ stage[o[i].group] <= stage[o[j].group]

\* C29: every heat of validHeats has at least one operation, its Heat_ID
\* occurs once in validHeats, and it has as many operations as the input has
\* rows of its heatId whose unit is in the unit table.
C29_RowConservation ==
    \A h \in 1..Len(validHeats) :
        /\ Len(validHeats[h].operations) >= 1
        /\ \A g \in 1..Len(validHeats) : g # h => validHeats[g].Heat_ID # validHeats[h].Heat_ID
        /\ Len(validHeats[h].operations) =
              Cardinality({i \in 1..Len(rows) :
                              /\ rows[i].heatId = validHeats[h].Heat_ID
                              /\ ~HasUnknownUnit(rows[i])})

\* Two heats were emitted, one of them with an operation less than it has
\* rows, the other row being of an unknown unit.
C29_Witness ==
    /\ Len(validHeats) = 2
    /\ \E h \in 1..2 :
          /\ Len(validHeats[h].operations) = 1
          /\ Cardinality({i \in 1..Len(rows) : rows[i].heatId = validHeats[h].Heat_ID}) = 2

\* C30: of two or more files handed to the page, while any call of
\* handleFileProcess has not ended isLoading is true; and when all have
\* ended, the heats and the error message shown are those of the file
\* handed over last: no heat and a message for the sheet without data rows,
\* the one heat of the sheet and no message otherwise.
C30_LastUploadWins ==
    Len(uploads) >= 2 =>
        LET last == uploads[Len(uploads)]
        IN  /\ (loaded # 1..Len(uploads) \/ pc \notin {"shown", "failed"}) => isLoading
            /\ (loaded = 1..Len(uploads) /\ pc \in {"shown", "failed"}) =>
                  IF Len(last) < 2
                  THEN ganttData = <<>> /\ error # <<>>
                  ELSE /\ Len(ganttData) = 1
                       /\ ganttData[1].Heat_ID = last[2][1].text
                       /\ error = <<>>

(***************************************************************************)
(* Two calls on the same rows                                              *)
(***************************************************************************)
BothRunsDone == run = 2 /\ Finished

\* The second call ended as the first did, with the same validHeats and the
\* same errors in the same order, and the rows are what the first call was
\* given.
SameOutcome ==
    /\ pc = firstRun.outcome[1].pc
    /\ validHeats = firstRun.outcome[1].validHeats
    /\ errors = firstRun.outcome[1].errors
    /\ rows = firstRun.rows

====
